---- MODULE Spec2Model ----
(***************************************************************************)
(* Model of the counter contract with the bech32 address conversion        *)
(* queries (src/src/contract.rs, src/src/msg.rs).                          *)
(*                                                                         *)
(* A Rust String is a sequence of ASCII codes, so that the character       *)
(* arithmetic of the bech32 encoding (hrp_expand, case folding) is         *)
(* computed and not assumed.  A byte array is a sequence of 0..255, a u5   *)
(* vector a sequence of 0..31.                                             *)
(***************************************************************************)
EXTENDS Integers, Sequences, FiniteSets, TLC

(***************************************************************************)
(* Results.  Ok and Err are the two variants of a Rust Result; Panic is    *)
(* the abort of the whole call that `.unwrap()` on an Err, or an           *)
(* arithmetic overflow in a checked build, produces: the caller gets no    *)
(* error value of the declared error type.                                 *)
(***************************************************************************)
Ok(v) == [kind |-> "Ok", val |-> v]
Err(e) == [kind |-> "Err", err |-> e]
Panic(e) == [kind |-> "Panic", err |-> e]

IsOk(r) == r.kind = "Ok"

(***************************************************************************)
(* Integer helpers: the bit operations of the bech32 crate on u8 / u32.    *)
(* TLC evaluates recursion on the Java stack, so the loops of the crate    *)
(* are written by index (what the loop has produced at position i) or as   *)
(* a balanced split of the range, never as one recursion per element.      *)
(***************************************************************************)
Shr(x, n) == x \div (2 ^ n)

RECURSIVE BitXor(_, _, _)
BitXor(a, b, n) ==
    IF n = 0 THEN 0
    ELSE ((a + b) % 2) + 2 * BitXor(a \div 2, b \div 2, n - 1)

\* XOR of two 5-bit groups, tabulated: Xor5[a + 1][b + 1] is a ^ b.  (SubSeq
\* yields the table itself, where a function constructor would stay a rule
\* that is computed again at every application.)
Xor5 ==
    SubSeq([a \in 1..32 |->
               SubSeq([b \in 1..32 |-> BitXor(a - 1, b - 1, 5)], 1, 32)],
           1, 32)

\* The k-th 5-bit group of x, counted from the least significant.
Group(x, k) == Shr(x, 5 * k) % 32

\* a ^ b for values below 2^30 (every checksum value is), five bits at a
\* time.
Xor(a, b) ==
      Xor5[Group(a, 0) + 1][Group(b, 0) + 1]
    + Xor5[Group(a, 1) + 1][Group(b, 1) + 1] * 32
    + Xor5[Group(a, 2) + 1][Group(b, 2) + 1] * 1024
    + Xor5[Group(a, 3) + 1][Group(b, 3) + 1] * 32768
    + Xor5[Group(a, 4) + 1][Group(b, 4) + 1] * 1048576
    + Xor5[Group(a, 5) + 1][Group(b, 5) + 1] * 33554432

(***************************************************************************)
(* Characters.                                                             *)
(***************************************************************************)
IsLower(c) == c \in 97..122
IsUpper(c) == c \in 65..90
ToLowerChar(c) == IF IsUpper(c) THEN c + 32 ELSE c
ToLowercase(s) == [i \in 1..Len(s) |-> ToLowerChar(s[i])]

\* The separator "1" of the bech32 crate.
SEP == 49

\* "qpzry9x8gf2tvdw0s3jn54khce6mua7l"
CHARSET ==
    << 113, 112, 122, 114, 121, 57, 120, 56, 103, 102, 50, 116, 118, 100,
       119, 48, 115, 51, 106, 110, 53, 52, 107, 104, 99, 101, 54, 109, 117,
       97, 55, 108 >>

\* The reverse table: the 5-bit value of a character in either case, -1 for
\* a character that is not in the alphabet.
CHARSET_REV ==
    [c \in 0..127 |->
        IF \E i \in 1..32 : CHARSET[i] = ToLowerChar(c)
        THEN (CHOOSE i \in 1..32 : CHARSET[i] = ToLowerChar(c)) - 1
        ELSE -1]

\* Generator coefficients of the checksum: 0x3b6a57b2, 0x26508e6d,
\* 0x1ea119fa, 0x3d4233dd, 0x2a1462b3.
GEN == << 996825010, 642813549, 513874426, 1027748829, 705979059 >>

\* Variant::Bech32 and Variant::Bech32m checksum constants (1, 0x2bc830a3).
BECH32_CONST == 1
BECH32M_CONST == 734539939

CHECKSUM_LENGTH == 6

\* Longest human-readable part check_hrp accepts.
MAX_HRP_LEN == 83

(***************************************************************************)
(* bech32::polymod and hrp_expand.                                         *)
(***************************************************************************)
\* GEN[i] when bit i-1 of b is set, else 0: what round i of the inner loop
\* XORs into chk.
GenTerm(b, i) == IF Shr(b, i - 1) % 2 = 1 THEN GEN[i] ELSE 0

\* The inner loop of polymod, tabulated by b = chk >> 25: GenMask[b + 1] is
\* the XOR of GEN[i] over the set bits i of b.
GenMask ==
    SubSeq([k \in 1..32 |->
               Xor(Xor(Xor(Xor(GenTerm(k - 1, 1), GenTerm(k - 1, 2)),
                           GenTerm(k - 1, 3)), GenTerm(k - 1, 4)),
                   GenTerm(k - 1, 5))],
           1, 32)

\* One round of polymod: b = chk >> 25;
\* chk = (chk & 0x1ffffff) << 5 ^ v; chk ^= GEN[i] for every set bit i of b.
\* The low five bits of the shifted value are zero and v is a u5, so the
\* first XOR is a sum.
polymod_step[chk \in Nat, v \in 0..31] ==
    Xor((chk % (2 ^ 25)) * 32 + v, GenMask[Shr(chk, 25) + 1])

\* polymod: the rounds for values[lo..hi] in order starting from chk are the
\* rounds of the first half and then, from their result, those of the second.
polymod(values) ==
    LET rounds[chk \in Nat, lo \in Nat, hi \in Nat] ==
            IF lo > hi THEN chk
            ELSE IF lo = hi THEN polymod_step[chk, values[lo]]
            ELSE rounds[rounds[chk, lo, (lo + hi) \div 2],
                        (lo + hi) \div 2 + 1, hi]
    IN rounds[1, 1, Len(values)]

\* hrp_expand without the zero group between the high and the low bits.
hrp_expand_no_separator(hrp) ==
    [i \in 1..Len(hrp) |-> Shr(hrp[i], 5)] \o
    [i \in 1..Len(hrp) |-> hrp[i] % 32]

hrp_expand(hrp) ==
    [i \in 1..Len(hrp) |-> Shr(hrp[i], 5)] \o << 0 >> \o
    [i \in 1..Len(hrp) |-> hrp[i] % 32]

(***************************************************************************)
(* bech32::check_hrp: the case of a human-readable part, or the error of   *)
(* the first byte at which the scan returns.                               *)
(***************************************************************************)
\* has_lower && has_upper after the bytes hrp[1..i].
MixedUpTo(hrp, i) ==
    /\ \E j \in 1..i : IsLower(hrp[j])
    /\ \E j \in 1..i : IsUpper(hrp[j])

check_hrp(hrp) ==
    IF Len(hrp) = 0 \/ Len(hrp) > MAX_HRP_LEN THEN Err("InvalidLength")
    ELSE LET stops == {i \in 1..Len(hrp) :
                          hrp[i] \notin 33..126 \/ MixedUpTo(hrp, i)}
         IN IF stops # {}
            THEN LET first == CHOOSE i \in stops : \A j \in stops : i <= j
                 IN IF hrp[first] \notin 33..126 THEN Err("InvalidChar")
                    ELSE Err("MixedCase")
            ELSE Ok(IF \E j \in 1..Len(hrp) : IsUpper(hrp[j]) THEN "Upper"
                    ELSE IF \E j \in 1..Len(hrp) : IsLower(hrp[j]) THEN "Lower"
                    ELSE "None")

(***************************************************************************)
(* ToBase32 for byte slices (write_base32): the bits of the bytes, most    *)
(* significant first, cut into groups of five, the last group padded with  *)
(* zero bits.  Group k (from 0) starts at bit 5k, inside byte 5k / 8.      *)
(***************************************************************************)
\* to_base32 that drops the last, partial group instead of padding it.
to_base32_no_padding(bytes) ==
    LET n == Len(bytes)
    IN [g \in 1..((8 * n) \div 5) |->
            LET bit == 5 * (g - 1)
                window == bytes[bit \div 8 + 1] * 256
                          + (IF bit \div 8 + 2 <= n THEN bytes[bit \div 8 + 2] ELSE 0)
            IN Shr(window, 11 - (bit % 8)) % 32]

to_base32(bytes) ==
    LET n == Len(bytes)
        byte(j) == IF j <= n THEN bytes[j] ELSE 0
    IN [g \in 1..((8 * n + 4) \div 5) |->
            LET bit == 5 * (g - 1)
                window == byte(bit \div 8 + 1) * 256 + byte(bit \div 8 + 2)
            IN Shr(window, 11 - (bit % 8)) % 32]

(***************************************************************************)
(* FromBase32 for Vec<u8>: convert_bits(data, 5, 8, false).  Every full    *)
(* eight bits of the running accumulator give a byte; at the end the       *)
(* `bits` left over must be fewer than five and all zero.                  *)
(***************************************************************************)
from_base32(data) ==
    LET m == Len(data)
        bits == (5 * m) % 8
        group(j) == IF j <= m THEN data[j] ELSE 0
    IN IF \E i \in 1..m : Shr(data[i], 5) # 0 THEN Err("InvalidData")
       ELSE IF bits >= 5 \/ (bits > 0 /\ data[m] % (2 ^ bits) # 0)
       THEN Err("InvalidPadding")
       ELSE Ok([b \in 1..((5 * m) \div 8) |->
                   LET bit == 8 * (b - 1)
                       g == bit \div 5
                       window == group(g + 1) * 1024 + group(g + 2) * 32
                                 + group(g + 3)
                   IN Shr(window, 7 - (bit % 5)) % 256])

(***************************************************************************)
(* bech32::encode (Bech32Writer, Variant::Bech32).                         *)
(***************************************************************************)
\* The six checksum groups: the writer's polymod over hrp_expand(hrp), the
\* data and six zero groups, XOR the variant constant.
Checksum(hrp, data) ==
    LET plm == Xor(polymod(hrp_expand(hrp) \o data \o << 0, 0, 0, 0, 0, 0 >>),
                   BECH32_CONST)
    IN [p \in 1..CHECKSUM_LENGTH |-> Shr(plm, 5 * (CHECKSUM_LENGTH - p)) % 32]

ToChars(u5s) == [i \in 1..Len(u5s) |-> CHARSET[u5s[i] + 1]]

\* bech32::encode that refuses a string of more than 90 characters.
bech32_encode_max_90(hrp, data) ==
    LET case == check_hrp(hrp)
    IN IF ~IsOk(case) THEN case
       ELSE IF Len(hrp) + 1 + Len(data) + CHECKSUM_LENGTH > 90
       THEN Err("InvalidLength")
       ELSE LET hrp_lower == IF case.val = "Upper" THEN ToLowercase(hrp) ELSE hrp
            IN Ok(hrp_lower \o << SEP >> \o ToChars(data)
                  \o ToChars(Checksum(hrp_lower, data)))

bech32_encode(hrp, data) ==
    LET case == check_hrp(hrp)
    IN IF ~IsOk(case) THEN case
       ELSE LET hrp_lower == IF case.val = "Upper" THEN ToLowercase(hrp) ELSE hrp
            IN Ok(hrp_lower \o << SEP >> \o ToChars(data)
                  \o ToChars(Checksum(hrp_lower, data)))

(***************************************************************************)
(* bech32::decode (split_and_decode, verify_checksum).                     *)
(***************************************************************************)
\* The index of the first separator, 0 when there is none.
Find(s) ==
    IF \E i \in 1..Len(s) : s[i] = SEP
    THEN CHOOSE i \in 1..Len(s) :
            s[i] = SEP /\ \A j \in 1..(i - 1) : s[j] # SEP
    ELSE 0

\* s.rfind(SEP): the index of the last separator, 0 when there is none.
RFind(s) ==
    IF \E i \in 1..Len(s) : s[i] = SEP
    THEN CHOOSE i \in 1..Len(s) :
            s[i] = SEP /\ \A j \in (i + 1)..Len(s) : s[j] # SEP
    ELSE 0

\* The case the scan of the data part holds before character i: the case of
\* the human-readable part, or of the first letter of raw[1..i-1].
CaseBefore(raw, i, hrp_case) ==
    IF hrp_case # "None" THEN hrp_case
    ELSE LET letters == {j \in 1..(i - 1) : IsLower(raw[j]) \/ IsUpper(raw[j])}
         IN IF letters = {} THEN "None"
            ELSE LET first == CHOOSE j \in letters : \A k \in letters : j <= k
                 IN IF IsLower(raw[first]) THEN "Lower" ELSE "Upper"

\* The error the scan of the data part returns at character i, "" for none.
CharError(raw, i, hrp_case) ==
    LET c == raw[i] IN
    IF c \notin 0..127 THEN "InvalidChar"
    ELSE IF IsLower(c) /\ CaseBefore(raw, i, hrp_case) = "Upper" THEN "MixedCase"
    ELSE IF IsUpper(c) /\ CaseBefore(raw, i, hrp_case) = "Lower" THEN "MixedCase"
    ELSE IF CHARSET_REV[c] \notin 0..31 THEN "InvalidChar"
    ELSE ""

\* The data characters mapped to 5-bit values, or the first error.
DecodeChars(raw, hrp_case) ==
    LET stops == {i \in 1..Len(raw) : CharError(raw, i, hrp_case) # ""}
    IN IF stops # {}
       THEN Err(CharError(raw, CHOOSE i \in stops : \A j \in stops : i <= j,
                          hrp_case))
       ELSE Ok([i \in 1..Len(raw) |-> CHARSET_REV[raw[i]]])

split_and_decode(s) ==
    LET sep == RFind(s) IN
    IF sep = 0 THEN Err("MissingSeparator")
    ELSE LET raw_hrp == SubSeq(s, 1, sep - 1)
             raw_data == SubSeq(s, sep + 1, Len(s))
             case == check_hrp(raw_hrp)
         IN IF ~IsOk(case) THEN case
            ELSE LET data == DecodeChars(raw_data, case.val)
                 IN IF ~IsOk(data) THEN data
                    ELSE Ok([hrp |-> IF case.val = "Upper"
                                     THEN ToLowercase(raw_hrp) ELSE raw_hrp,
                             data |-> data.val])

\* verify_checksum that accepts every remainder.
verify_checksum_any(hrp, data) == polymod(hrp_expand(hrp) \o data) >= 0

\* Variant::from_remainder(polymod(hrp_expand(hrp) ++ data)) is Some.
verify_checksum(hrp, data) ==
    polymod(hrp_expand(hrp) \o data) \in {BECH32_CONST, BECH32M_CONST}

bech32_decode(s) ==
    LET sd == split_and_decode(s) IN
    IF ~IsOk(sd) THEN sd
    ELSE IF Len(sd.val.data) < CHECKSUM_LENGTH THEN Err("InvalidLength")
    ELSE IF ~verify_checksum(sd.val.hrp, sd.val.data) THEN Err("InvalidChecksum")
    ELSE Ok([hrp |-> sd.val.hrp,
             data |-> SubSeq(sd.val.data, 1, Len(sd.val.data) - CHECKSUM_LENGTH)])

(***************************************************************************)
(* The conversion queries of the contract.                                 *)
(***************************************************************************)
ADDR_LEN == 32

\* bech32::encode(&prefix, bytes.to_vec().to_base32(), Variant::Bech32).unwrap()
to_bech32_addr(prefix, bytes) ==
    LET r == bech32_encode(prefix, to_base32(bytes))
    IN IF IsOk(r) THEN Ok([bech32_addr |-> r.val]) ELSE Panic(r.err)

\* bytes.iter_mut().zip(&data).for_each(|(b1, b2)| *b1 = *b2) on [0u8; 32]
ZipCopy(data) ==
    [i \in 1..ADDR_LEN |-> IF i <= Len(data) THEN data[i] ELSE 0]

from_bech32_addr(bech32_addr) ==
    LET d == bech32_decode(bech32_addr) IN
    IF ~IsOk(d) THEN Panic(d.err)
    ELSE LET data == from_base32(d.val.data) IN
         IF ~IsOk(data) THEN Panic(data.err)
         ELSE Ok([prefix |-> d.val.hrp, bytes |-> ZipCopy(data.val)])

(***************************************************************************)
(* The counter: the handlers as functions of the stored state.  The STATE  *)
(* item is << >> before it is saved and << [count, owner] >> after.        *)
(***************************************************************************)
I32_MAX == 2147483647
I32_MIN == -2147483647 - 1

CONTRACT_NAME == "crates.io:counter-1-0"
CONTRACT_VERSION == "CARGO_PKG_VERSION"

\* instantiate that stores a zero count whatever the message says.
instantiate_zero_count(sender, count) ==
    [store |-> << [count |-> 0, owner |-> sender] >>,
     version |-> << [contract |-> CONTRACT_NAME, version |-> CONTRACT_VERSION] >>,
     res |-> Ok([method |-> "instantiate", owner |-> sender, count |-> count])]

\* instantiate: saves the contract version and the state; no condition.
instantiate(sender, count) ==
    [store |-> << [count |-> count, owner |-> sender] >>,
     version |-> << [contract |-> CONTRACT_NAME, version |-> CONTRACT_VERSION] >>,
     res |-> Ok([method |-> "instantiate", owner |-> sender, count |-> count])]

\* try_increment that starts from a zero count when nothing is stored.
try_increment_or_default(st) ==
    IF st = << >>
    THEN {[store |-> << [count |-> 1, owner |-> "anyone"] >>,
           res |-> Ok([method |-> "try_increment"])]}
    ELSE IF st[1].count = I32_MAX
    THEN {[store |-> st, res |-> Panic("attempt to add with overflow")],
          [store |-> << [st[1] EXCEPT !.count = I32_MIN] >>,
           res |-> Ok([method |-> "try_increment"])]}
    ELSE {[store |-> << [st[1] EXCEPT !.count = @ + 1] >>,
           res |-> Ok([method |-> "try_increment"])]}

\* try_increment: STATE.update fails when nothing is stored.  `count += 1`
\* on i32::MAX panics in a build with overflow checks and wraps in one
\* without: both outcomes are possible.
try_increment(st) ==
    IF st = << >> THEN {[store |-> st, res |-> Err("NotFound")]}
    ELSE IF st[1].count = I32_MAX
    THEN {[store |-> st, res |-> Panic("attempt to add with overflow")],
          [store |-> << [st[1] EXCEPT !.count = I32_MIN] >>,
           res |-> Ok([method |-> "try_increment"])]}
    ELSE {[store |-> << [st[1] EXCEPT !.count = @ + 1] >>,
           res |-> Ok([method |-> "try_increment"])]}

\* try_reset that saves the count before it compares the sender.
try_reset_saved_first(st, sender, count) ==
    IF st = << >> THEN [store |-> st, res |-> Err("NotFound")]
    ELSE [store |-> << [st[1] EXCEPT !.count = count] >>,
          res |-> IF sender # st[1].owner THEN Err("Unauthorized")
                  ELSE Ok([method |-> "reset"])]

\* try_reset without the comparison of the sender with the owner.
try_reset_no_owner_check(st, sender, count) ==
    IF st = << >> THEN [store |-> st, res |-> Err("NotFound")]
    ELSE [store |-> << [st[1] EXCEPT !.count = count] >>,
          res |-> Ok([method |-> "reset"])]

\* try_reset that answers Ok to the owner without saving the new count.
try_reset_not_saved(st, sender, count) ==
    IF st = << >> THEN [store |-> st, res |-> Err("NotFound")]
    ELSE IF sender # st[1].owner
    THEN [store |-> st, res |-> Err("Unauthorized")]
    ELSE [store |-> st, res |-> Ok([method |-> "reset"])]

\* try_reset: the closure returns Unauthorized before it assigns, and update
\* saves only what the closure returns Ok.
try_reset(st, sender, count) ==
    IF st = << >> THEN [store |-> st, res |-> Err("NotFound")]
    ELSE IF sender # st[1].owner
    THEN [store |-> st, res |-> Err("Unauthorized")]
    ELSE [store |-> << [st[1] EXCEPT !.count = count] >>,
          res |-> Ok([method |-> "reset"])]

\* query_count that fails on a negative count.
query_count_no_negative(st) ==
    IF st = << >> \/ st[1].count < 0 THEN Err("NotFound")
    ELSE Ok([count |-> st[1].count])

\* query_count: STATE.load fails when nothing is stored.
query_count(st) ==
    IF st = << >> THEN Err("NotFound") ELSE Ok([count |-> st[1].count])

(***************************************************************************)
(* Inputs.                                                                 *)
(***************************************************************************)
\* The callers of the tests.
Senders == {"creator", "anyone"}

\* Counts a message can carry: the ends of i32, and the values of the tests.
Counts == {I32_MIN, -1, 0, 5, 17, I32_MAX - 1, I32_MAX}

\* Increment calls per behaviour.
MaxIncrements == 3

\* "juno"
Juno == << 106, 117, 110, 111 >>

\* The payload of tests::test_addr_conversions.
JunoBytes ==
    << 248, 16, 208, 23, 135, 21, 240, 199, 57, 194, 137, 165, 7, 119, 11,
       26, 193, 160, 8, 43, 223, 197, 251, 232, 208, 15, 227, 86, 152, 17,
       87, 46 >>

\* "juno1lqgdq9u8zhcvwwwz3xjswactrtq6qzptmlzlh6xspl34dxq32uhqhlphat"
JunoAddr ==
    << 106, 117, 110, 111, 49, 108, 113, 103, 100, 113, 57, 117, 56, 122,
       104, 99, 118, 119, 119, 119, 122, 51, 120, 106, 115, 119, 97, 99,
       116, 114, 116, 113, 54, 113, 122, 112, 116, 109, 108, 122, 108, 104,
       54, 120, 115, 112, 108, 51, 52, 100, 120, 113, 51, 50, 117, 104,
       113, 104, 108, 112, 104, 97, 116 >>

\* Number of payloads tried.
NumPayloads == 3

\* Payload 1 is the payload of the test, 2 all zero, 3 all 255, the others a
\* pattern.
Payload(k) ==
    IF k = 1 THEN JunoBytes
    ELSE IF k = 2 THEN [i \in 1..ADDR_LEN |-> 0]
    ELSE IF k = 3 THEN [i \in 1..ADDR_LEN |-> 255]
    ELSE [i \in 1..ADDR_LEN |-> (i * 37 * k + 11 * k) % 256]

Payloads == {Payload(k) : k \in 1..NumPayloads}

\* A lowercase tag of n letters.
LowerTag(n) == [i \in 1..n |-> 97 + ((i * 7) % 26)]

\* Tags of lowercase letters only, 1 to 83 characters.
ValidTags == {LowerTag(1), Juno, LowerTag(MAX_HRP_LEN)}

\* "", "JUNO", "Juno", "ju no", "a1", and a tag of 84 letters.
OtherTags ==
    {<< >>, << 74, 85, 78, 79 >>, << 74, 117, 110, 111 >>,
     << 106, 117, 32, 110, 111 >>, << 97, 49 >>, LowerTag(MAX_HRP_LEN + 1)}

IsValidTag(t) ==
    /\ Len(t) \in 1..MAX_HRP_LEN
    /\ \A i \in 1..Len(t) : IsLower(t[i])

\* What a caller asks ToBech32 for.
CodecInputs ==
    {[prefix |-> t, bytes |-> b] : t \in ValidTags, b \in Payloads}
    \cup {[prefix |-> t, bytes |-> JunoBytes] : t \in OtherTags}

\* bech32 strings with a valid tag, separator and checksum whose data is not
\* 32 bytes: 20 bytes, 33 bytes, 31 bytes, no bytes.
EncodeBytes(hrp, bytes) == bech32_encode(hrp, to_base32(bytes)).val

WrongLengthAddrs ==
    {EncodeBytes(Juno, SubSeq(JunoBytes, 1, 20)),
     EncodeBytes(Juno, JunoBytes \o << 7 >>),
     EncodeBytes(Juno, SubSeq(JunoBytes, 1, 31)),
     EncodeBytes(Juno, << >>)}

\* "junoqqqqqq" (no separator), the test address in upper case, the test
\* address with its tag in upper case only, "1qqqqqq" (empty tag),
\* "juno1qqq" (shorter than a checksum), "juno1bqqqqqq" (b is not in the
\* alphabet), 52 groups whose padding bits are not zero, and an address whose
\* tag "ju1no" holds the separator.
ToUppercase(s) == [i \in 1..Len(s) |-> IF IsLower(s[i]) THEN s[i] - 32 ELSE s[i]]

\* "ju1no", a tag that holds the separator, and the address of the test's
\* bytes under it, in which the separator occurs twice.
JuOneNo == << 106, 117, SEP, 110, 111 >>
TwoSeparatorAddr == EncodeBytes(JuOneNo, JunoBytes)

MalformedAddrs ==
    {Juno \o << 113, 113, 113, 113, 113, 113 >>,
     ToUppercase(JunoAddr),
     ToUppercase(Juno) \o SubSeq(JunoAddr, 5, Len(JunoAddr)),
     << SEP, 113, 113, 113, 113, 113, 113 >>,
     Juno \o << SEP, 113, 113, 113 >>,
     Juno \o << SEP, 98, 113, 113, 113, 113, 113, 113 >>,
     bech32_encode(Juno, [i \in 1..52 |-> 1]).val,
     TwoSeparatorAddr}

\* Addresses a caller holds without having asked ToBech32 for them.
GivenAddrs == {JunoAddr} \cup WrongLengthAddrs \cup MalformedAddrs

\* The addresses tried between the calls of the counter: the address of the
\* test and "junoqqqqqq", which has no separator.
TestAddrs == {JunoAddr, Juno \o << 113, 113, 113, 113, 113, 113 >>}

\* s with the character at position i replaced by the alphabet's c.
Replace(s, i, c) == [s EXCEPT ![i] = c]

\* Every string that differs from s in one character of the body (after the
\* last separator), the other character taken from the alphabet.
Tampered(s) ==
    {Replace(s, i, CHARSET[k]) :
        i \in {j \in (RFind(s) + 1)..Len(s) : TRUE}, k \in 1..32}
    \ {s}

(***************************************************************************)
(* The state machine.                                                      *)
(***************************************************************************)
VARIABLES
    store,        \* the STATE item: << >> or << [count, owner] >>
    version,      \* the cw2 contract version record: << >> or << record >>
    msg,          \* the call handled last: [op, sender, arg, src]
    res,          \* what that call returned: Ok, Err or Panic
    input,        \* the prefix and bytes the caller converts
    increments    \* Increment calls so far

vars == << store, version, msg, res, input, increments >>

NoMsg == [op |-> "None", sender |-> "-", arg |-> 0, src |-> "-"]
NoRes == [kind |-> "None"]

Init ==
    /\ store = << >>
    /\ version = << >>
    /\ msg = NoMsg
    /\ res = NoRes
    /\ input = [prefix |-> Juno, bytes |-> JunoBytes]
    /\ increments = 0

\* instantiate entry point.
Instantiate(sender, count) ==
    LET r == instantiate(sender, count) IN
    /\ store' = r.store
    /\ version' = r.version
    /\ msg' = [op |-> "Instantiate", sender |-> sender, arg |-> count, src |-> "-"]
    /\ res' = r.res
    /\ UNCHANGED << input, increments >>

\* execute, ExecuteMsg::Increment {}.
Increment(sender) ==
    /\ increments < MaxIncrements
    /\ \E r \in try_increment(store) :
        /\ store' = r.store
        /\ res' = r.res
    /\ msg' = [op |-> "Increment", sender |-> sender, arg |-> 0, src |-> "-"]
    /\ increments' = increments + 1
    /\ UNCHANGED << version, input >>

\* execute, ExecuteMsg::Reset { count }.
Reset(sender, count) ==
    LET r == try_reset(store, sender, count) IN
    /\ store' = r.store
    /\ res' = r.res
    /\ msg' = [op |-> "Reset", sender |-> sender, arg |-> count, src |-> "-"]
    /\ UNCHANGED << version, input, increments >>

\* GetCount that removes the stored state after reading it.
GetCount_removing ==
    /\ res' = query_count(store)
    /\ msg' = [op |-> "GetCount", sender |-> "-", arg |-> 0, src |-> "-"]
    /\ store' = << >>
    /\ UNCHANGED << version, input, increments >>

\* query, QueryMsg::GetCount {}.
GetCount ==
    /\ res' = query_count(store)
    /\ msg' = [op |-> "GetCount", sender |-> "-", arg |-> 0, src |-> "-"]
    /\ UNCHANGED << store, version, input, increments >>

\* query, QueryMsg::ToBech32 { prefix, bytes }.
ToBech32 ==
    /\ res' = to_bech32_addr(input.prefix, input.bytes)
    /\ msg' = [op |-> "ToBech32", sender |-> "-", arg |-> input, src |-> "-"]
    /\ UNCHANGED << store, version, input, increments >>

\* query, QueryMsg::FromBech32 { bech32 }; src records where the caller has
\* the string from.
FromBech32(bech32, src) ==
    /\ res' = from_bech32_addr(bech32)
    /\ msg' = [op |-> "FromBech32", sender |-> "-", arg |-> bech32, src |-> src]
    /\ UNCHANGED << store, version, input, increments >>

\* The caller has an address from ToBech32 just now.
HasReturned == msg.op = "ToBech32" /\ IsOk(res)

FromBech32Given(addrs) == \E s \in addrs : FromBech32(s, "given")

FromBech32Returned ==
    /\ HasReturned
    /\ FromBech32(res.val.bech32_addr, "returned")

FromBech32Tampered ==
    /\ HasReturned
    /\ \E s \in Tampered(res.val.bech32_addr) : FromBech32(s, "tampered")

Next ==
    \/ \E sender \in Senders, count \in Counts : Instantiate(sender, count)
    \/ \E sender \in Senders : Increment(sender)
    \/ \E sender \in Senders, count \in Counts : Reset(sender, count)
    \/ GetCount
    \/ ToBech32
    \/ FromBech32Given(TestAddrs)
    \/ FromBech32Returned

Spec == Init /\ [][Next]_vars

(***************************************************************************)
(* The conversions alone: the caller picks a prefix and bytes, converts    *)
(* them, and converts back, once, what it got, as returned or with one      *)
(* character changed, or an address it was given.                          *)
(***************************************************************************)
CodecInit ==
    /\ store = << >>
    /\ version = << >>
    /\ msg = NoMsg
    /\ res = NoRes
    /\ input \in CodecInputs
    /\ increments = 0

\* The caller has not converted back yet.
NotBack == msg.op # "FromBech32"

CodecNext ==
    \/ NotBack /\ ToBech32
    \/ NotBack /\ FromBech32Given(GivenAddrs)
    \/ NotBack /\ FromBech32Returned
    \/ NotBack /\ FromBech32Tampered

CodecSpec == CodecInit /\ [][CodecNext]_vars

(***************************************************************************)
(* Properties.                                                             *)
(***************************************************************************)

\* C1: in an Active state, Reset by a caller who is not the stored owner
\* returns Unauthorized and leaves the stored count and owner as they were.
C1_NonOwnerResetRejected ==
    [][(msg'.op = "Reset" /\ store # << >> /\ msg'.sender # store[1].owner)
        => (res'.kind = "Err" /\ res'.err = "Unauthorized" /\ store' = store)]_vars

\* Reached: after Initialize(17) and Increment, Reset(5) by a non-owner was
\* refused and the count is 18.
C1_Witness ==
    /\ msg.op = "Reset" /\ msg.arg = 5
    /\ res.kind = "Err" /\ res.err = "Unauthorized"
    /\ store # << >> /\ store[1].count = 18
    /\ msg.sender # store[1].owner
    /\ increments = 1

\* C2: for a tag of 1 to 83 lowercase letters and any 32 bytes, ToBech32
\* succeeds and FromBech32 of the string it returned gives back exactly the
\* tag and the bytes.
C2_RoundTrip ==
    IsValidTag(input.prefix) =>
        /\ (msg.op = "ToBech32" => res.kind = "Ok")
        /\ (msg.op = "FromBech32" /\ msg.src = "returned")
            => (res.kind = "Ok"
                /\ res.val = [prefix |-> input.prefix, bytes |-> input.bytes])

\* Reached: the round trip of an 83-letter tag with the all-255 payload.
C2_Witness ==
    /\ msg.op = "FromBech32" /\ msg.src = "returned"
    /\ res.kind = "Ok"
    /\ Len(input.prefix) = MAX_HRP_LEN
    /\ input.bytes = Payload(3)
    /\ res.val.bytes = Payload(3)

\* C3: FromBech32 of a string with a valid tag, separator and checksum whose
\* data regroups to fewer or more than 32 bytes fails with InvalidLength.
C3_WrongLengthRejected ==
    (msg.op = "FromBech32" /\ msg.arg \in WrongLengthAddrs)
        => (res.kind # "Ok" /\ res.err = "InvalidLength")

\* C4: FromBech32 of an encoded string with one character of its body
\* replaced by another character of the alphabet does not succeed: the
\* decoding stops on the checksum.
C4_TamperRejected ==
    (msg.op = "FromBech32" /\ msg.src = "tampered")
        => (res.kind # "Ok" /\ res.err = "InvalidChecksum")

\* Reached: a tampered address of the test's tag and payload was refused.
C4_Witness ==
    /\ msg.op = "FromBech32" /\ msg.src = "tampered"
    /\ input = [prefix |-> Juno, bytes |-> JunoBytes]
    /\ msg.arg # JunoAddr
    /\ res.kind = "Panic" /\ res.err = "InvalidChecksum"

\* C5: ToBech32 with an empty tag, or a tag with a character that is not a
\* lowercase letter, returns an error result and no encoded string.
C5_BadTagIsError ==
    (msg.op = "ToBech32"
     /\ (Len(msg.arg.prefix) = 0
         \/ \E i \in 1..Len(msg.arg.prefix) : ~IsLower(msg.arg.prefix[i])))
        => res.kind = "Err"

\* C6: the vector of the test: "juno" with the test's bytes encodes to the
\* test's address, and that address decodes to "juno" and those bytes.
C6_JunoVector ==
    /\ (msg.op = "ToBech32" /\ msg.arg = [prefix |-> Juno, bytes |-> JunoBytes])
        => (res.kind = "Ok" /\ res.val.bech32_addr = JunoAddr)
    /\ (msg.op = "FromBech32" /\ msg.arg = JunoAddr)
        => (res.kind = "Ok" /\ res.val = [prefix |-> Juno, bytes |-> JunoBytes])

\* Reached: ToBech32 returned the test's address and FromBech32 decoded it.
C6_Witness ==
    /\ msg.op = "FromBech32" /\ msg.src = "returned"
    /\ msg.arg = JunoAddr
    /\ res.kind = "Ok" /\ res.val.bytes = JunoBytes

\* C7: in an Active state, Increment by any caller succeeds, and afterwards
\* the stored count is the previous count plus 1 and the owner is unchanged.
C7_IncrementAddsOne ==
    [][(msg'.op = "Increment" /\ store # << >>)
        => (/\ res'.kind = "Ok"
            /\ store[1].count < I32_MAX
            /\ store' = << [count |-> store[1].count + 1,
                            owner |-> store[1].owner] >>)]_vars

\* C8: in an Active state, Reset(new_count) by the stored owner succeeds for
\* every i32, stores new_count and keeps the owner, and a GetCount that
\* follows returns new_count.
C8_OwnerResetSetsCount ==
    [][/\ (msg'.op = "Reset" /\ store # << >> /\ msg'.sender = store[1].owner)
          => (res'.kind = "Ok"
              /\ store' = << [count |-> msg'.arg, owner |-> store[1].owner] >>)
       /\ (msg.op = "Reset" /\ res.kind = "Ok" /\ msg'.op = "GetCount")
          => (res'.kind = "Ok" /\ res'.val.count = msg.arg)]_vars

\* Reached: after Increments, the owner's Reset to the least i32 succeeded.
C8_Witness ==
    /\ msg.op = "Reset" /\ res.kind = "Ok"
    /\ increments = MaxIncrements
    /\ msg.arg = I32_MIN
    /\ store = << [count |-> I32_MIN, owner |-> msg.sender] >>

\* C9: Initialize(count) by X from the Uninitialized state succeeds and
\* stores count and owner X, and a GetCount that follows returns count.
C9_InitializeStores ==
    [][/\ (msg'.op = "Instantiate" /\ store = << >>)
          => (res'.kind = "Ok"
              /\ store' = << [count |-> msg'.arg, owner |-> msg'.sender] >>)
       /\ (msg.op = "Instantiate" /\ res.kind = "Ok" /\ msg'.op = "GetCount")
          => (res'.kind = "Ok" /\ res'.val.count = msg.arg)]_vars

\* Reached: Initialize(17) by "creator", then GetCount returned 17.
C9_Witness ==
    /\ msg.op = "GetCount" /\ res.kind = "Ok" /\ res.val.count = 17
    /\ store = << [count |-> 17, owner |-> "creator"] >>
    /\ increments = 0

\* C10: once the store is Active no call returns it to Uninitialized or
\* changes the stored owner.
C10_OwnerNeverChanges ==
    [][store # << >>
        => (store' # << >> /\ store'[1].owner = store[1].owner)]_vars

\* C11: the queries GetCount, ToBech32 and FromBech32, whether they return
\* Ok or fail, leave the stored count and owner (and the version record) as
\* they were.
C11_QueriesReadOnly ==
    [][msg'.op \in {"GetCount", "ToBech32", "FromBech32"}
        => (store' = store /\ version' = version)]_vars

\* Reached: in an Active state with count 18, FromBech32 of a string with no
\* separator failed and the state is still there.
C11_Witness ==
    /\ msg.op = "FromBech32" /\ res.kind = "Panic"
    /\ store = << [count |-> 18, owner |-> "creator"] >>
    /\ version # << >>

\* C12: once the store is Active, GetCount succeeds and returns the count
\* that is stored, whatever calls came before.
C12_GetCountNeverFails ==
    [][(msg'.op = "GetCount" /\ store # << >>)
        => (res'.kind = "Ok" /\ res'.val.count = store[1].count
            /\ res'.val.count = store'[1].count)]_vars

\* Reached: after the Increments allowed, GetCount returned a negative
\* stored count.
C12_Witness ==
    /\ msg.op = "GetCount" /\ res.kind = "Ok"
    /\ store # << >> /\ res.val.count = store[1].count
    /\ res.val.count = -1
    /\ increments = MaxIncrements

\* C13: FromBech32 of a string without the separator "1" returns the error
\* MissingSeparator to the caller as the result of the query.
C13_NoSeparatorIsError ==
    (msg.op = "FromBech32" /\ \A i \in 1..Len(msg.arg) : msg.arg[i] # SEP)
        => (res.kind = "Err" /\ res.err = "MissingSeparator")

C15_ErrorsLeaveState ==
    [][res'.kind \in {"Err", "Panic"}
        => (store' = store /\ version' = version)]_vars

\* Reached: Increment at the greatest i32 panicked and the count is still
\* the greatest i32.
C15_Witness ==
    /\ msg.op = "Increment" /\ res.kind = "Panic"
    /\ store # << >> /\ store[1].count = I32_MAX

C17_UninitializedCallsFail ==
    [][/\ (store = << >> /\ msg'.op \in {"Increment", "Reset", "GetCount"})
          => (res'.kind = "Err" /\ store' = << >>)
       /\ (store = << >> /\ msg.op \in {"Increment", "Reset", "GetCount"}
           /\ msg'.op = "Instantiate")
          => (res'.kind = "Ok"
              /\ store' = << [count |-> msg'.arg, owner |-> msg'.sender] >>)]_vars

\* Reached: never initialized, every Increment allowed has failed, and
\* GetCount fails with nothing stored.
C17_Witness ==
    /\ store = << >> /\ version = << >>
    /\ increments = MaxIncrements
    /\ msg.op = "GetCount"
    /\ res.kind = "Err" /\ res.err = "NotFound"

\* C18: the stored count is always a signed 32-bit value and an Increment
\* that succeeds leaves it strictly greater than before, also from
\* 2147483647.
C18_CountNeverWraps ==
    [][/\ store' # << >> => store'[1].count \in I32_MIN..I32_MAX
       /\ (msg'.op = "Increment" /\ res'.kind = "Ok" /\ store # << >>)
          => store'[1].count > store[1].count]_vars

====
